---- MODULE Spec2Model ----
(***************************************************************************)
(* Crash-report lifecycle of subiquity/controllers/error.py:               *)
(* ErrorReport (new, from_file, add_info, load, set_meta, mark_seen, kind) *)
(* and ErrorController (start, scan_crash_dir, _report_loaded,             *)
(* create_report), together with the crash directory on disk and the       *)
(* background task runner the controller hands work to.                    *)
(***************************************************************************)
EXTENDS Integers, Sequences, FiniteSets, TLC

VARIABLES
    dirExists,   \* the crash directory exists on disk
    crashFiles,  \* bases b for which <b>.crash exists
    metaFiles,   \* function: bases b for which <b>.meta exists -> file content
    objs,        \* every ErrorReport constructed and kept, in construction order
    reports,     \* ErrorController.reports: sequence of indexes into objs
    tasks,       \* background tasks handed to run_in_bg, completion not yet delivered
    now,         \* the reading of time.time() the next crash file is named after
    started,     \* ErrorController.start has been called
    nMeta,       \* direct set_meta / mark_seen calls made so far
    host,        \* the options of the run, /proc/self/mountinfo, udev's block devices
    last         \* what the most recent main-thread call did and what observers saw

vars == <<dirExists, crashFiles, metaFiles, objs, reports, tasks, now, started, nMeta,
          host, last>>

----------------------------------------------------------------------------
(* Bounds of the model. *)

MaxFiles == 2     \* .crash files already in the store before the process starts
MaxCreate == 1    \* create_report calls
MaxReports == 3   \* ErrorReport objects constructed by scans and create_report
MaxMetaOps == 1   \* direct set_meta / mark_seen calls
MaxMounts == 2    \* lines of /proc/self/mountinfo

----------------------------------------------------------------------------
(* Enumerations. *)

ErrorReportState == {"INCOMPLETE", "LOADING", "DONE", "ERROR_GENERATING", "ERROR_LOADING"}

ErrorReportKind == {"BLOCK_PROBE_FAIL", "DISK_PROBE_FAIL", "INSTALL_FAIL", "UI", "UNKNOWN"}

Terminal == {"DONE", "ERROR_GENERATING", "ERROR_LOADING"}

\* kind.name.lower()
lower(name) ==
    CASE name = "BLOCK_PROBE_FAIL" -> "block_probe_fail"
      [] name = "DISK_PROBE_FAIL" -> "disk_probe_fail"
      [] name = "INSTALL_FAIL" -> "install_fail"
      [] name = "UI" -> "ui"
      [] name = "UNKNOWN" -> "unknown"

\* position of the lower-cased kind names in string order
KindRank(k) ==
    CASE k = "block_probe_fail" -> 1
      [] k = "disk_probe_fail" -> 2
      [] k = "install_fail" -> 3
      [] k = "ui" -> 4
      [] k = "unknown" -> 5

\* position of the two extensions in string order
ExtRank(e) == IF e = "crash" THEN 1 ELSE 2

----------------------------------------------------------------------------
(* Metadata mappings and the metadata file. *)

EmptyMeta == [k \in {} |-> TRUE]

\* self.meta.get(key, default)
meta_get(m, key, default) == IF key \in DOMAIN m THEN m[key] ELSE default

\* self.meta = {key: value}: the mapping replaced instead of updated
meta_put_fresh(m, key, value) == [k \in {key} |-> value]

\* self.meta[key] = value
meta_put(m, key, value) ==
    [k \in (DOMAIN m) \cup {key} |-> IF k = key THEN value ELSE m[k]]

\* content of a metadata file: text json.load rejects, or a JSON object
Corrupt == [json |-> FALSE, val |-> EmptyMeta]

Json(m) == [json |-> TRUE, val |-> m]

\* the mapping a metadata file holds, a missing file counting as empty
DiskMeta(mf, base) ==
    IF base \in DOMAIN mf THEN mf[base] ELSE Json(EmptyMeta)

\* outcomes of open(meta_path, 'w') followed by json.dump
IoOutcome == {"ok", "open_fail", "write_fail"}

WriteMetaFile(mf, base, m, io) ==
    CASE io = "ok" -> [b \in (DOMAIN mf) \cup {base} |-> IF b = base THEN Json(m) ELSE mf[b]]
      [] io = "open_fail" -> mf
      [] io = "write_fail" -> [b \in (DOMAIN mf) \cup {base} |-> IF b = base THEN Corrupt ELSE mf[b]]

----------------------------------------------------------------------------
(* File names.  A base is <<timestamp, lower-cased kind>>, standing for     *)
(* "<timestamp>.<kind>"; timestamps are printed to the same width, so that  *)
(* string order on names is the order on (timestamp, kind, extension).      *)

name_lt(a, b) ==
    \/ a[1] < b[1]
    \/ a[1] = b[1] /\ KindRank(a[2]) < KindRank(b[2])
    \/ a[1] = b[1] /\ a[2] = b[2] /\ ExtRank(a[3]) < ExtRank(b[3])

\* os.listdir(self.crash_directory)
listdir(cf, mf) ==
    {<<b[1], b[2], "crash">> : b \in cf} \cup {<<b[1], b[2], "meta">> : b \in DOMAIN mf}

RECURSIVE sorted_forward(_)
\* sorted(filenames): the reverse flag left out
sorted_forward(S) ==
    IF S = {} THEN <<>>
    ELSE LET m == CHOOSE x \in S : \A y \in S \ {x} : name_lt(x, y)
         IN  <<m>> \o sorted_forward(S \ {m})

RECURSIVE sorted_reverse(_)
\* sorted(filenames, reverse=True)
sorted_reverse(S) ==
    IF S = {} THEN <<>>
    ELSE LET m == CHOOSE x \in S : \A y \in S \ {x} : name_lt(y, x)
         IN  <<m>> \o sorted_reverse(S \ {m})

\* os.path.splitext(filename)
splitext(filename) == [base |-> <<filename[1], filename[2]>>, ext |-> filename[3]]

----------------------------------------------------------------------------
(* ErrorReport.  The fields controller, base, state, _file (TRUE: an open   *)
(* handle, FALSE: None) and meta are the object's; scan, nload, ndone and   *)
(* nadd record its history: the scan_crash_dir call that constructed it     *)
(* (named by the first report that call constructed, 0 for a report made by *)
(* new), the load() calls made on it, the completion callbacks delivered    *)
(* for it, and the add_info calls made on it.                               *)

Report(base, state, meta, scan) ==
    [base |-> base, state |-> state, file |-> TRUE, meta |-> meta,
     scan |-> scan, nload |-> 0, ndone |-> 0, nadd |-> 0]

\* ErrorReport.kind
kind(rep) ==
    LET k == meta_get(rep.meta, "kind", "UNKNOWN")
    IN  IF k \in ErrorReportKind THEN k ELSE "UNKNOWN"

\* ErrorReport.seen
seen(rep) == meta_get(rep.meta, "seen", FALSE)

\* ErrorReport.set_meta, on a report record and the metadata files
set_meta(rep, mf, key, value, io) ==
    LET m == meta_put(rep.meta, key, value)
    IN  [report |-> [rep EXCEPT !.meta = m],
         metaFiles |-> WriteMetaFile(mf, rep.base, m, io),
         raised |-> io # "ok"]

\* Python's None, and a value that is not None
None == <<>>
Some(x) == <<x>>

\* ErrorController.crash_directory for app.root = "/"
crash_directory == "/var/crash"

\* os.path.normpath on the paths of the model: a trailing slash is dropped
normpath(p) ==
    CASE p = "/var/crash/" -> "/var/crash"
      [] p = "/cdrom/" -> "/cdrom"
      [] OTHER -> p

\* os.path.abspath, os.path.realpath: the paths of the model are absolute and
\* no symbolic links
abspath(p) == p
realpath(p) == p

\* root[1:]
drop_first(s) ==
    CASE s = "/" -> ""
      [] s = "/crash" -> "crash"
      [] s = "/var/crash" -> "var/crash"

\* the lines of the mount table whose mount point is the crash directory
Matching(h) ==
    {i \in 1..Len(h.mountinfo) :
        normpath(h.mountinfo[i].mnt) = abspath(normpath(crash_directory))}

\* what persistent_details does once the loop over the mount table has
\* broken off at line i
persistent_details_found(rep, h, i) ==
    LET devname == h.mountinfo[i].dev
        root == h.mountinfo[i].root
        devs == {d \in h.blockdevs : d.DEVNAME = realpath(devname)}
    IN  IF devs = {}
        THEN [raised |-> FALSE, ret |-> <<None, None>>]
        ELSE LET d == CHOOSE d \in devs : TRUE
                 label == IF d.ID_FS_LABEL_ENC = None THEN "" ELSE d.ID_FS_LABEL_ENC[1]
             IN  [raised |-> FALSE,
                  ret |-> <<Some(label),
                            Some(<<drop_first(root), "/", rep.base, ".crash">>)>>]

\* persistent_details without the else clause of the for loop: devname is
\* read although no line has bound it
persistent_details_noelse(rep, h) ==
    IF Matching(h) = {}
    THEN [raised |-> TRUE, ret |-> <<None, None>>]
    ELSE persistent_details_found(rep, h, CHOOSE i \in Matching(h) : \A j \in Matching(h) : i <= j)

\* ErrorReport.persistent_details
persistent_details(rep, h) ==
    IF Matching(h) = {}
    THEN IF h.dry_run
         THEN [raised |-> FALSE,
               ret |-> <<Some("casper-rw"),
                         Some(<<"install-logs/2019-11-06.0/crash/", rep.base, ".crash">>)>>]
         ELSE [raised |-> FALSE, ret |-> <<None, None>>]
    ELSE persistent_details_found(rep, h, CHOOSE i \in Matching(h) : \A j \in Matching(h) : i <= j)

\* new formatting the time with too few digits to tell two readings apart
new_coarse(mf, t, kindName, io) ==
    set_meta(Report(<<t \div 2, lower(kindName)>>, "INCOMPLETE", EmptyMeta, 0),
             mf, "kind", kindName, io)

\* ErrorReport.new: the report, the metadata files after it, whether it raised
new(mf, t, kindName, io) ==
    set_meta(Report(<<t, lower(kindName)>>, "INCOMPLETE", EmptyMeta, 0),
             mf, "kind", kindName, io)

\* ErrorReport.from_file
from_file(mf, base, scan) ==
    IF base \notin DOMAIN mf
    THEN [raised |-> FALSE, report |-> Report(base, "LOADING", EmptyMeta, scan)]
    ELSE IF ~ mf[base].json
    THEN [raised |-> TRUE, report |-> Report(base, "LOADING", EmptyMeta, scan)]
    ELSE [raised |-> FALSE, report |-> Report(base, "LOADING", mf[base].val, scan)]

----------------------------------------------------------------------------
(* A main-thread call works on a context: the objects, the controller's     *)
(* sequence, the runner's tasks, the metadata files, what observers of the  *)
(* call saw (obs) and whether the call raised to its caller.                *)

Ctx ==
    [objs |-> objs, reports |-> reports, tasks |-> tasks,
     metaFiles |-> metaFiles, obs |-> <<>>, raised |-> FALSE]

\* what an observer called at this point sees of report r
Saw(c, ev, r) ==
    [ev |-> ev, r |-> r, state |-> c.objs[r].state, file |-> c.objs[r].file]

\* urwid.emit_signal(self, "changed")
emit_changed(c, r) == [c EXCEPT !.obs = Append(@, Saw(c, "changed", r))]

\* controller.run_in_bg(func, callback): the task is in flight until its
\* completion callback is delivered on the main thread
run_in_bg(c, task) == [c EXCEPT !.tasks = @ \cup {task}]

\* ErrorReport.load, up to handing the task over
load(c, r, rest) ==
    run_in_bg([c EXCEPT !.objs[r].nload = @ + 1],
              [r |-> r, op |-> "load", rest |-> rest])

RECURSIVE report_loaded_all(_, _)
\* every report of to_load handed to the runner at once, chaining nothing
report_loaded_all(c, to_load) ==
    IF to_load = <<>> THEN c
    ELSE report_loaded_all(load(c, Head(to_load), <<>>), Tail(to_load))

\* ErrorController._report_loaded
report_loaded(c, to_load) ==
    IF to_load # <<>> THEN load(c, Head(to_load), Tail(to_load)) ELSE c

\* the callback taking what is left to load from the controller's sequence:
\* lambda: self._report_loaded(self.reports[1:])
on_done_reports(c, r, rest) ==
    report_loaded([c EXCEPT !.obs = Append(@, Saw(c, "on_done", r))], Tail(c.reports))

\* the callback cb() given to load: lambda: self._report_loaded(to_load[1:])
on_done(c, r, rest) ==
    report_loaded([c EXCEPT !.obs = Append(@, Saw(c, "on_done", r))], rest)

\* self._file.close() alone: the handle is closed but not cleared
close_file_keep(c, r) == c

\* self._file.close(); self._file = None
close_file(c, r) == [c EXCEPT !.objs[r].file = FALSE]

\* loaded(fut) calling cb() as soon as the state is set, before the handle is
\* cleared and "changed" is emitted
loaded_cb_first(c, r, rest, ok) ==
    LET c1 == [c EXCEPT !.objs[r].state = IF ok THEN "DONE" ELSE "ERROR_LOADING",
                        !.objs[r].ndone = @ + 1]
        c2 == on_done(c1, r, rest)
        c3 == close_file(c2, r)
    IN  emit_changed(c3, r)

\* loaded(fut) letting the failure of the parse out of the callback once the
\* state is set, so that nothing after the try statement runs
loaded_reraise(c, r, rest, ok) ==
    LET c1 == [c EXCEPT !.objs[r].state = IF ok THEN "DONE" ELSE "ERROR_LOADING",
                        !.objs[r].ndone = @ + 1]
        c2 == close_file(c1, r)
        c3 == emit_changed(c2, r)
    IN  IF ok THEN on_done(c3, r, rest) ELSE [c1 EXCEPT !.raised = TRUE]

\* ErrorReport.load.loaded(fut)
loaded(c, r, rest, ok) ==
    LET c1 == [c EXCEPT !.objs[r].state = IF ok THEN "DONE" ELSE "ERROR_LOADING",
                        !.objs[r].ndone = @ + 1]
        c2 == close_file(c1, r)
        c3 == emit_changed(c2, r)
    IN  on_done(c3, r, rest)

\* added_info(fut) with the failure state of loaded(fut)
added_info_copied(c, r, ok) ==
    LET c1 == [c EXCEPT !.objs[r].state = IF ok THEN "DONE" ELSE "ERROR_LOADING",
                        !.objs[r].ndone = @ + 1]
        c2 == close_file(c1, r)
    IN  emit_changed(c2, r)

\* ErrorReport.add_info.added_info(fut)
added_info(c, r, ok) ==
    LET c1 == [c EXCEPT !.objs[r].state = IF ok THEN "DONE" ELSE "ERROR_GENERATING",
                        !.objs[r].ndone = @ + 1]
        c2 == close_file(c1, r)
    IN  emit_changed(c2, r)

\* ErrorReport.add_info(hook, wait): ok is whether hook and population succeed
\* when they run on the caller's thread
add_info(c, r, wait, ok) ==
    LET c1 == [c EXCEPT !.objs[r].nadd = @ + 1]
    IN  IF wait
        THEN [c1 EXCEPT !.raised = ~ ok]
        ELSE run_in_bg(c1, [r |-> r, op |-> "populate", rest |-> <<>>])

\* ErrorReport.set_meta on report r of the context
set_meta_of(c, r, key, value, io) ==
    LET res == set_meta(c.objs[r], c.metaFiles, key, value, io)
    IN  [c EXCEPT !.objs[r] = res.report, !.metaFiles = res.metaFiles,
                  !.raised = res.raised]

\* ErrorReport.mark_seen
mark_seen(c, r, io) ==
    LET c1 == set_meta_of(c, r, "seen", TRUE, io)
    IN  IF c1.raised THEN c1 ELSE emit_changed(c1, r)

RECURSIVE scan_loop_all(_, _, _, _)
\* the scan handing self.reports, not to_load, to _report_loaded
scan_loop_all(c, names, to_load, scan) ==
    IF names = <<>> THEN report_loaded(c, c.reports)
    ELSE LET se == splitext(Head(names))
         IN  IF se.ext # "crash"
             THEN scan_loop_all(c, Tail(names), to_load, scan)
             ELSE LET res == from_file(c.metaFiles, se.base, scan)
                      id == Len(c.objs) + 1
                  IN  IF res.raised
                      THEN [c EXCEPT !.raised = TRUE]
                      ELSE scan_loop_all([c EXCEPT !.objs = Append(@, res.report),
                                                   !.reports = Append(@, id)],
                                         Tail(names), Append(to_load, id), scan)

RECURSIVE scan_loop_eager(_, _, _, _)
\* the scan starting the load of each report as soon as it is appended
scan_loop_eager(c, names, to_load, scan) ==
    IF names = <<>> THEN c
    ELSE LET se == splitext(Head(names))
         IN  IF se.ext # "crash"
             THEN scan_loop_eager(c, Tail(names), to_load, scan)
             ELSE LET res == from_file(c.metaFiles, se.base, scan)
                      id == Len(c.objs) + 1
                  IN  IF res.raised
                      THEN [c EXCEPT !.raised = TRUE]
                      ELSE scan_loop_eager(load([c EXCEPT !.objs = Append(@, res.report),
                                                          !.reports = Append(@, id)],
                                                id, <<>>),
                                           Tail(names), Append(to_load, id), scan)

RECURSIVE scan_loop(_, _, _, _)
\* the for loop of scan_crash_dir and the call of _report_loaded after it
scan_loop(c, names, to_load, scan) ==
    IF names = <<>> THEN report_loaded(c, to_load)
    ELSE LET se == splitext(Head(names))
         IN  IF se.ext # "crash"
             THEN scan_loop(c, Tail(names), to_load, scan)
             ELSE LET res == from_file(c.metaFiles, se.base, scan)
                      id == Len(c.objs) + 1
                  IN  IF res.raised
                      THEN [c EXCEPT !.raised = TRUE]
                      ELSE scan_loop([c EXCEPT !.objs = Append(@, res.report),
                                               !.reports = Append(@, id)],
                                     Tail(names), Append(to_load, id), scan)

\* ErrorController.scan_crash_dir
scan_crash_dir(c, exists, cf) ==
    IF ~ exists THEN [c EXCEPT !.raised = TRUE]
    ELSE scan_loop(c, sorted_reverse(listdir(cf, c.metaFiles)), <<>>, Len(c.objs) + 1)

\* create_report with self.reports.append(r) in place of insert(0, r)
create_report_append(c, t, kindName, io) ==
    LET res == new(c.metaFiles, t, kindName, io)
        id == Len(c.objs) + 1
    IN  IF res.raised
        THEN [c EXCEPT !.metaFiles = res.metaFiles, !.raised = TRUE]
        ELSE [c EXCEPT !.metaFiles = res.metaFiles,
                       !.objs = Append(@, res.report),
                       !.reports = Append(@, id)]

\* ErrorController.create_report, the crash file of new being open already
create_report(c, t, kindName, io) ==
    LET res == new(c.metaFiles, t, kindName, io)
        id == Len(c.objs) + 1
    IN  IF res.raised
        THEN [c EXCEPT !.metaFiles = res.metaFiles, !.raised = TRUE]
        ELSE [c EXCEPT !.metaFiles = res.metaFiles,
                       !.objs = Append(@, res.report),
                       !.reports = <<id>> \o @]

----------------------------------------------------------------------------
(* The store before the process starts. *)

\* the i-th crash file a previous run may have left behind
PreKind(i) == IF i % 2 = 1 THEN "INSTALL_FAIL" ELSE "UI"

PreBase(i) == <<(i + 1) \div 2, lower(PreKind(i))>>

PreBases == {PreBase(i) : i \in 1..MaxFiles}

\* what the metadata file of a left-behind crash file may hold
PreMeta(i) == {Corrupt, Json(meta_put(EmptyMeta, "kind", PreKind(i)))}

PreMetaFiles(cf) ==
    UNION {{f \in [D -> UNION {PreMeta(i) : i \in 1..MaxFiles}] :
               \A i \in 1..MaxFiles : PreBase(i) \in D => f[PreBase(i)] \in PreMeta(i)} :
           D \in SUBSET cf}

NoCall == [op |-> "none", r |-> 0, arg |-> "", wait |-> FALSE, ok |-> TRUE,
           raised |-> FALSE, obs |-> <<>>, ret |-> <<>>]

\* the lines /proc/self/mountinfo may hold: root, mount point, tenth field
MountLines ==
    {[root |-> "/", mnt |-> "/", dev |-> "/dev/sda1"],
     [root |-> "/crash", mnt |-> "/var/crash", dev |-> "/dev/sdb1"],
     [root |-> "/", mnt |-> "/cdrom", dev |-> "/dev/sr0"]}

\* the block devices udev may know: none, or the crash partition with or
\* without a filesystem label
BlockDevs ==
    {{}, {[DEVNAME |-> "/dev/sdb1", ID_FS_LABEL_ENC |-> None]},
     {[DEVNAME |-> "/dev/sdb1", ID_FS_LABEL_ENC |-> Some("casper-rw")]}}

Hosts ==
    [dry_run : BOOLEAN,
     mountinfo : UNION {[1..n -> MountLines] : n \in 0..MaxMounts},
     blockdevs : BlockDevs]

\* an installed-system run on a host with the root filesystem mounted only
PlainHost ==
    [dry_run |-> FALSE,
     mountinfo |-> <<[root |-> "/", mnt |-> "/", dev |-> "/dev/sda1"]>>,
     blockdevs |-> {}]

InitStore ==
    /\ dirExists \in BOOLEAN
    /\ crashFiles \in (IF dirExists THEN SUBSET PreBases ELSE {{}})
    /\ metaFiles \in PreMetaFiles(crashFiles)
    /\ objs = <<>>
    /\ reports = <<>>
    /\ tasks = {}
    /\ now = MaxFiles + 1
    /\ started = FALSE
    /\ nMeta = 0
    /\ last = NoCall

Init == InitStore /\ host = PlainHost

----------------------------------------------------------------------------
(* The calls made on the main thread, and the delivery of completions.  In  *)
(* last.r a scan records the first report it constructed, create_report the *)
(* report it returned, every other call the report it was made on.          *)

\* the state after a call that ended in context c
Commit(c, call) ==
    /\ Len(c.objs) <= MaxReports
    /\ objs' = c.objs
    /\ reports' = c.reports
    /\ tasks' = c.tasks
    /\ metaFiles' = c.metaFiles
    /\ host' = host
    /\ last' = [call EXCEPT !.raised = c.raised, !.obs = c.obs]

\* ErrorController.start, which the application calls once, at startup
Start ==
    /\ ~ started
    /\ started' = TRUE
    /\ dirExists' = TRUE
    /\ Commit(scan_crash_dir(Ctx, TRUE, crashFiles),
              [NoCall EXCEPT !.op = "start", !.r = Len(objs) + 1])
    /\ UNCHANGED <<crashFiles, now, nMeta>>

\* ErrorController.scan_crash_dir, called again after start
ScanCrashDir ==
    /\ started
    /\ Commit(scan_crash_dir(Ctx, dirExists, crashFiles),
              [NoCall EXCEPT !.op = "scan_crash_dir", !.r = Len(objs) + 1])
    /\ UNCHANGED <<dirExists, crashFiles, now, started, nMeta>>

\* ErrorController.create_report(kind); open() of the crash file raises when
\* the directory is missing
CreateReport(kindName, io) ==
    /\ now <= MaxFiles + MaxCreate
    /\ now' = now + 1
    /\ IF dirExists
       THEN /\ TRUE
            /\ crashFiles' = crashFiles \cup {<<now, lower(kindName)>>}
            /\ Commit(create_report(Ctx, now, kindName, io),
                      [NoCall EXCEPT !.op = "create_report", !.arg = kindName,
                                     !.r = Len(objs) + 1])
       ELSE /\ UNCHANGED crashFiles
            /\ Commit([Ctx EXCEPT !.raised = TRUE],
                      [NoCall EXCEPT !.op = "create_report", !.arg = kindName])
    /\ UNCHANGED <<dirExists, started, nMeta>>

\* the reports add_info is called on: the caller of create_report populates
\* the report it was given, once; recovered reports are never populated
NewlyCreated(r) == objs[r].scan = 0 /\ objs[r].nadd = 0

\* ErrorReport.add_info on a report made by create_report, once per report; ok
\* is read only when the work runs on the caller's thread (wait)
AddInfo(r, wait, ok) ==
    /\ r \in 1..Len(objs)
    /\ NewlyCreated(r)
    /\ wait \/ ok
    /\ Commit(add_info(Ctx, r, wait, ok),
              [NoCall EXCEPT !.op = "add_info", !.r = r, !.wait = wait, !.ok = ok])
    /\ UNCHANGED <<dirExists, crashFiles, now, started, nMeta>>

\* the runner delivers the completion of task t; ok is the outcome of its work
Complete(t, ok) ==
    /\ t \in tasks
    /\ LET c == [Ctx EXCEPT !.tasks = @ \ {t}]
       IN  IF t.op = "load"
           THEN Commit(loaded(c, t.r, t.rest, ok),
                       [NoCall EXCEPT !.op = "loaded", !.r = t.r, !.ok = ok])
           ELSE Commit(added_info(c, t.r, ok),
                       [NoCall EXCEPT !.op = "added_info", !.r = t.r, !.ok = ok])
    /\ UNCHANGED <<dirExists, crashFiles, now, started, nMeta>>

\* the keys and values a user of a report passes to set_meta
MetaArgs == {<<"kind", "BOGUS">>}

\* ErrorReport.set_meta(key, value), called by a user of the report
SetMeta(r, key, value, io) ==
    /\ r \in 1..Len(objs)
    /\ nMeta < MaxMetaOps
    /\ nMeta' = nMeta + 1
    /\ Commit(set_meta_of(Ctx, r, key, value, io),
              [NoCall EXCEPT !.op = "set_meta", !.r = r, !.arg = key])
    /\ UNCHANGED <<dirExists, crashFiles, now, started>>

\* ErrorReport.mark_seen()
MarkSeen(r, io) ==
    /\ r \in 1..Len(objs)
    /\ nMeta < MaxMetaOps
    /\ nMeta' = nMeta + 1
    /\ Commit(mark_seen(Ctx, r, io), [NoCall EXCEPT !.op = "mark_seen", !.r = r])
    /\ UNCHANGED <<dirExists, crashFiles, now, started>>

\* ErrorReport.persistent_details read on report r
PersistentDetails(r) ==
    /\ r \in 1..Len(objs)
    /\ LET res == persistent_details(objs[r], host)
       IN  last' = [NoCall EXCEPT !.op = "persistent_details", !.r = r,
                                  !.raised = res.raised, !.ret = res.ret]
    /\ UNCHANGED <<dirExists, crashFiles, metaFiles, objs, reports, tasks, now,
                   started, nMeta, host>>

\* the kinds the callers of create_report pass in the lifecycle runs
SomeKinds == {"DISK_PROBE_FAIL", "UI"}

\* the report lifecycle: scans, creation, population, loads
Next ==
    \/ Start
    \/ ScanCrashDir
    \/ \E k \in SomeKinds, io \in IoOutcome : CreateReport(k, io)
    \/ \E r \in 1..Len(objs), wait \in BOOLEAN, ok \in BOOLEAN : AddInfo(r, wait, ok)
    \/ \E t \in tasks, ok \in BOOLEAN : Complete(t, ok)

Spec == Init /\ [][Next]_vars

\* every task the background runner has started finishes, and its completion
\* callback is delivered on the main thread
Delivery == WF_vars(\E t \in tasks, ok \in BOOLEAN : Complete(t, ok))

SpecFair == Spec /\ Delivery

\* a store whose metadata files are all readable, in an existing directory
InitMeta ==
    /\ Init
    /\ dirExists
    /\ \A b \in DOMAIN metaFiles : metaFiles[b].json

\* the metadata runs construct one report fewer than the lifecycle runs
MetaCap == Len(objs') < MaxReports

\* the metadata of the reports of one scan and of created reports whose first
\* metadata write succeeded
NextMeta ==
    \/ Start /\ MetaCap
    \/ CreateReport("DISK_PROBE_FAIL", "ok") /\ MetaCap
    \/ \E r \in 1..Len(objs), wait \in BOOLEAN, ok \in BOOLEAN : AddInfo(r, wait, ok)
    \/ \E t \in tasks, ok \in BOOLEAN : Complete(t, ok)
    \/ \E r \in 1..Len(objs), a \in MetaArgs, io \in IoOutcome : SetMeta(r, a[1], a[2], io)
    \/ \E r \in 1..Len(objs), io \in IoOutcome : MarkSeen(r, io)

SpecMeta == InitMeta /\ [][NextMeta]_vars

\* a readable store on any host, in a dry run or not
InitDetails ==
    /\ InitStore
    /\ dirExists
    /\ \A b \in DOMAIN metaFiles : metaFiles[b].json
    /\ host \in Hosts

\* persistent_details of recovered and of created reports
NextDetails ==
    \/ Start /\ MetaCap
    \/ CreateReport("DISK_PROBE_FAIL", "ok") /\ MetaCap
    \/ \E r \in 1..Len(objs) : PersistentDetails(r)

SpecDetails == InitDetails /\ [][NextDetails]_vars

\* the load of the crash file of PreBase(2) never finishes
Hangs(t) == t.op = "load" /\ objs[t.r].base = PreBase(2)

\* one scan and the population of created reports while that load hangs
NextStuck ==
    \/ Start
    \/ \E k \in SomeKinds : CreateReport(k, "ok")
    \/ \E r \in 1..Len(objs), wait \in BOOLEAN, ok \in BOOLEAN : AddInfo(r, wait, ok)
    \/ \E t \in tasks, ok \in BOOLEAN : ~ Hangs(t) /\ Complete(t, ok)

\* every populate task finishes and has its completion delivered; nothing is
\* assumed of the load tasks
PopulateDelivery ==
    WF_vars(\E t \in tasks, ok \in BOOLEAN : t.op = "populate" /\ Complete(t, ok))

SpecStuck == Init /\ [][NextStuck]_vars /\ PopulateDelivery

\* create_report with every kind
NextKinds ==
    \/ Start
    \/ \E k \in ErrorReportKind, io \in IoOutcome : CreateReport(k, io)
    \/ \E t \in tasks, ok \in BOOLEAN : Complete(t, ok)

SpecKinds == Init /\ [][NextKinds]_vars

----------------------------------------------------------------------------
(* Vocabulary of the properties. *)

Ids == 1..Len(objs)

\* the load tasks in flight
LoadsInFlight == {t \in tasks : t.op = "load"}

\* report r has a populate or load task in flight
InFlight(r) == \E t \in tasks : t.r = r

\* the name of the crash file of report r
CrashName(r) == <<objs[r].base[1], objs[r].base[2], "crash">>

\* the "changed" notifications the last call emitted
ChangedSeen == {i \in 1..Len(last.obs) : last.obs[i].ev = "changed"}

----------------------------------------------------------------------------
(* C1 *)

\* C1, as stated: in every reachable state at most one load task started by
\* the directory scan is in flight, whatever calls of start, scan_crash_dir,
\* create_report and add_info and whatever completions have happened.
C1_AtMostOneLoadInFlight == Cardinality(LoadsInFlight) <= 1

\* C1, amended: in every reachable state, for each scan_crash_dir call at most
\* one load task of the chain that call started is in flight; the chains of
\* different scan_crash_dir calls are not serialized with one another.
C1_OneLoadPerChain ==
    \A t1, t2 \in LoadsInFlight : objs[t1.r].scan = objs[t2.r].scan => t1 = t2

\* a two-report chain with its first load in flight, the second waiting, while
\* a populate task runs beside it
C1_Witness ==
    /\ \E t \in LoadsInFlight : t.rest # <<>>
    /\ \E t \in tasks : t.op = "populate"

----------------------------------------------------------------------------
(* C2 *)

\* C2: the reports one scan_crash_dir call recovered stand in the sequence in
\* descending file name order, and of any two of them the later one's load
\* has not begun unless the earlier one's completion callback was delivered.
C2_ScanOrder ==
    \A p, q \in 1..Len(reports) :
        (/\ p < q
         /\ objs[reports[p]].scan # 0
         /\ objs[reports[p]].scan = objs[reports[q]].scan)
        => /\ name_lt(CrashName(reports[q]), CrashName(reports[p]))
           /\ objs[reports[q]].nload > 0 => objs[reports[p]].ndone > 0

\* B before A from one scan, B's completion delivered, A's load in flight
C2_Witness ==
    \E p, q \in 1..Len(reports) :
        /\ p < q
        /\ objs[reports[p]].scan # 0
        /\ objs[reports[p]].scan = objs[reports[q]].scan
        /\ objs[reports[p]].ndone > 0
        /\ objs[reports[q]].nload > 0 /\ InFlight(reports[q])

----------------------------------------------------------------------------
(* C3 *)

\* C3: a scan that meets a metadata file that is not valid JSON skips that
\* entry only: the call does not raise, and every crash file whose metadata
\* is valid (or missing) has a report of this scan in the sequence, which is
\* loading or waiting in the scan's chain.
C3_CorruptMetaSkipsOneEntry ==
    last.op \in {"start", "scan_crash_dir"} =>
        /\ ~ last.raised
        /\ \A b \in crashFiles :
              DiskMeta(metaFiles, b).json =>
                 \E p \in 1..Len(reports) :
                    /\ objs[reports[p]].base = b
                    /\ objs[reports[p]].scan = last.r
                    /\ \E t \in LoadsInFlight :
                          \/ t.r = reports[p]
                          \/ \E i \in 1..Len(t.rest) : t.rest[i] = reports[p]

----------------------------------------------------------------------------
(* C4 *)

\* C4: when add_info on a fresh report has completed with no failure, the
\* report is DONE: after the completion callback without wait, and when
\* add_info returns with wait.
C4_AddInfoDone ==
    /\ (last.op = "added_info" /\ last.ok) => objs[last.r].state = "DONE"
    /\ (last.op = "add_info" /\ last.wait /\ last.ok) => objs[last.r].state = "DONE"

----------------------------------------------------------------------------
(* C5 *)

\* C5: when the hook or a population step fails, in either mode, nothing is
\* raised to the caller of add_info, the report is ERROR_GENERATING, its file
\* handle is closed and cleared, and exactly one "changed" was emitted.
C5_AddInfoFailure ==
    (\/ last.op = "added_info" /\ ~ last.ok
     \/ last.op = "add_info" /\ last.wait /\ ~ last.ok)
    => /\ ~ last.raised
       /\ objs[last.r].state = "ERROR_GENERATING"
       /\ ~ objs[last.r].file
       /\ Cardinality(ChangedSeen) = 1

----------------------------------------------------------------------------
(* C6 *)

\* C6: a create_report(kind) call that returns gives a report that is
\* INCOMPLETE, whose kind is the given kind, and that is at position 0 of the
\* sequence with the earlier reports after it, unchanged and in their order.
C6_CreateReportFront ==
    [][(last'.op = "create_report" /\ ~ last'.raised) =>
          /\ objs'[last'.r].state = "INCOMPLETE"
          /\ kind(objs'[last'.r]) = last'.arg
          /\ reports' = <<last'.r>> \o reports
          /\ \A i \in Ids : objs'[i] = objs[i]]_vars

\* a report just created in front of recovered ones
C6_Witness ==
    /\ last.op = "create_report" /\ ~ last.raised
    /\ last.arg = "BLOCK_PROBE_FAIL"
    /\ Len(reports) >= 3
    /\ reports[1] = last.r

----------------------------------------------------------------------------
(* C7 *)

\* C7, as stated: a report's file handle is non-null only while a populate
\* or load task of that report is in flight.
C7_FileOnlyInFlight == \A r \in Ids : objs[r].file => InFlight(r)

\* C7, amended: a report's file handle is non-null from the report's
\* construction (new and from_file open the file) until the completion
\* callback of its populate or load is delivered, so also before that task
\* has started, and it is null once the completion has been delivered.
C7_FileUntilCompletion ==
    \A r \in Ids :
        /\ objs[r].file <=> objs[r].ndone = 0
        /\ objs[r].file <=> objs[r].state \notin Terminal
        /\ InFlight(r) => objs[r].file

\* a recovered report waiting in the chain with its file open, behind one
\* whose load has completed and whose handle is cleared
C7_Witness ==
    \E r1, r2 \in Ids :
        /\ objs[r1].ndone = 1 /\ ~ objs[r1].file
        /\ objs[r2].file /\ ~ InFlight(r2) /\ objs[r2].nload = 0

----------------------------------------------------------------------------
(* C8 *)

\* C8: between calls, the meta mapping of every report equals the mapping in
\* its metadata file, a missing file counting as empty, also after set_meta
\* calls whose write failed.
C8_MetaMatchesDisk ==
    \A r \in Ids : DiskMeta(metaFiles, objs[r].base) = Json(objs[r].meta)

----------------------------------------------------------------------------
(* C9 *)

\* report r has a kind in its meta that the step changes or removes
KindChanged(r) ==
    /\ "kind" \in DOMAIN objs[r].meta
    /\ \/ "kind" \notin DOMAIN objs'[r].meta
       \/ objs'[r].meta["kind"] # objs[r].meta["kind"]

\* C9, as stated: once meta["kind"] has a value, no operation on the report
\* changes it: set_meta with any key and value, mark_seen, add_info, load.
C9_KindNeverChanges == [][\A r \in Ids : ~ KindChanged(r)]_vars

\* C9, amended: once meta["kind"] has a value, only set_meta called with the
\* key "kind" on that report changes it; set_meta with another key,
\* mark_seen, add_info and load (and their completions) leave it alone.
C9_KindChangedOnlyBySetMetaKind ==
    [][\A r \in Ids :
          KindChanged(r) =>
             last'.op = "set_meta" /\ last'.arg = "kind" /\ last'.r = r]_vars

\* mark_seen has just rewritten the meta of a report that has a kind and
\* whose background work is over
C9_Witness ==
    /\ last.op = "mark_seen" /\ ~ last.raised
    /\ "kind" \in DOMAIN objs[last.r].meta
    /\ objs[last.r].ndone = 1
    /\ seen(objs[last.r])

----------------------------------------------------------------------------
(* C10 *)

\* C10: the completion of a load, successful or not, emits "changed" once
\* and then calls on_done once, and both see the report in its final state
\* (DONE or ERROR_LOADING) with the file handle cleared; it is the only
\* completion of that load.
C10_LoadCompletionOrder ==
    last.op = "loaded" =>
        /\ Len(last.obs) = 2
        /\ last.obs[1].ev = "changed" /\ last.obs[2].ev = "on_done"
        /\ \A i \in 1..2 :
              /\ last.obs[i].r = last.r
              /\ last.obs[i].state = (IF last.ok THEN "DONE" ELSE "ERROR_LOADING")
              /\ ~ last.obs[i].file
        /\ objs[last.r].state = (IF last.ok THEN "DONE" ELSE "ERROR_LOADING")
        /\ objs[last.r].nload = 1 /\ objs[last.r].ndone = 1

\* a failed load has completed and its on_done has started the next load
C10_Witness ==
    /\ last.op = "loaded" /\ ~ last.ok
    /\ \E t \in LoadsInFlight : objs[t.r].scan = objs[last.r].scan


----------------------------------------------------------------------------
(* C11 *)

\* the load task of report r whose completion the step delivers
Delivered(t) == t \in tasks /\ t \notin tasks' /\ t.op = "load" /\ t.r = last'.r

\* C11: when the load of a recovered report fails, that report becomes
\* ERROR_LOADING, nothing is raised, no other report changes state, the
\* sequence is unchanged, and the load of the next report of the chain is
\* started.
C11_LoadFailureContained ==
    [][(last'.op = "loaded" /\ ~ last'.ok) =>
          /\ objs'[last'.r].state = "ERROR_LOADING"
          /\ ~ last'.raised
          /\ reports' = reports
          /\ \A i \in Ids : i # last'.r => objs'[i].state = objs[i].state
          /\ \A t \in tasks :
                (Delivered(t) /\ t.rest # <<>>) =>
                   /\ [r |-> Head(t.rest), op |-> "load", rest |-> Tail(t.rest)] \in tasks'
                   /\ objs[Head(t.rest)].nload = 0
                   /\ objs'[Head(t.rest)].nload = 1]_vars

\* a failed load in a sequence of three reports, the next load of its chain
\* in flight and the report before it in the sequence untouched
C11_Witness ==
    /\ last.op = "loaded" /\ ~ last.ok
    /\ objs[last.r].state = "ERROR_LOADING"
    /\ Len(reports) >= 3
    /\ \E t \in LoadsInFlight :
          objs[t.r].scan = objs[last.r].scan /\ objs[t.r].nload = 1


----------------------------------------------------------------------------
(* C12 *)

\* C12: provided every started background task eventually delivers its
\* completion, every report a scan_crash_dir call recovered eventually reaches
\* DONE or ERROR_LOADING: none stays in LOADING forever.
C12_RecoveredEventuallyLoaded ==
    \A r \in 1..MaxReports :
        (r \in Ids /\ objs[r].scan # 0)
            ~> (r \in Ids /\ objs[r].state \in {"DONE", "ERROR_LOADING"})


----------------------------------------------------------------------------
(* C13 *)

\* C13: no report ever has a populate task and a load task in flight at the
\* same time.
C13_PopulateLoadExclusive ==
    \A t1, t2 \in tasks : (t1.op = "populate" /\ t2.op = "load") => t1.r # t2.r

\* the nearest the program comes to it: a created report being populated
\* while a scan's report of the same crash file is being loaded
C13_Witness ==
    \E t1, t2 \in tasks :
        /\ t1.op = "populate" /\ t2.op = "load"
        /\ objs[t1.r].base = objs[t2.r].base
        /\ objs[t1.r].file /\ objs[t2.r].file


----------------------------------------------------------------------------
(* C14 *)

----------------------------------------------------------------------------
(* C15 *)

OneScanBeforeCreates ==
    /\ \A i, j \in Ids : (objs[i].scan # 0 /\ objs[j].scan # 0) => objs[i].scan = objs[j].scan
    /\ \A i, j \in Ids : (objs[i].scan # 0 /\ objs[j].scan = 0) => i < j

----------------------------------------------------------------------------
(* C16 *)

\* the state changes a completion of a task of kind op may make
Transitions(op) ==
    IF op = "populate"
    THEN {<<"INCOMPLETE", "DONE">>, <<"INCOMPLETE", "ERROR_GENERATING">>}
    ELSE {<<"LOADING", "DONE">>, <<"LOADING", "ERROR_LOADING">>}

\* C16: the state of a report changes only in the step that delivers the
\* completion of its own populate or load task, and only from INCOMPLETE to
\* DONE or ERROR_GENERATING, or from LOADING to DONE or ERROR_LOADING; a
\* terminal state never changes, and set_meta and mark_seen change no state.
C16_StateTransitions ==
    [][\A r \in Ids :
          /\ objs'[r].state # objs[r].state =>
                /\ last'.op \in {"added_info", "loaded"}
                /\ last'.r = r
                /\ objs[r].state \notin Terminal
                /\ \E t \in tasks :
                      /\ t.r = r
                      /\ t \notin tasks'
                      /\ <<objs[r].state, objs'[r].state>> \in Transitions(t.op)
          /\ last'.op \in {"set_meta", "mark_seen"} => objs'[r].state = objs[r].state]_vars

\* mark_seen has just been called on a report that its populate task had
\* brought to ERROR_GENERATING
C16_Witness ==
    /\ last.op = "mark_seen" /\ ~ last.raised
    /\ objs[last.r].state = "ERROR_GENERATING"
    /\ objs[last.r].ndone = 1


----------------------------------------------------------------------------
(* C17 *)

\* no line of the mount table has the crash directory as its mount point
NotMountPoint ==
    \A i \in 1..Len(host.mountinfo) : host.mountinfo[i].mnt # "/var/crash"

\* C17, as stated: persistent_details returns (None, None) and raises nothing
\* whenever the crash directory is not the mount point of any line of the
\* mount table, whatever the options of the run, dry-run included.
C17_NoneWhenNotMounted ==
    (last.op = "persistent_details" /\ NotMountPoint) =>
        ~ last.raised /\ last.ret = <<None, None>>

\* C17, amended: when the crash directory is not the mount point of any line
\* of the mount table, persistent_details raises nothing and returns
\* (None, None) unless the run is a dry run; in a dry run it returns the label
\* "casper-rw" and the path install-logs/2019-11-06.0/crash/<base>.crash.
C17_NoneUnlessDryRun ==
    (last.op = "persistent_details" /\ NotMountPoint) =>
        /\ ~ last.raised
        /\ ~ host.dry_run => last.ret = <<None, None>>
        /\ host.dry_run =>
              /\ last.ret[1] = <<"casper-rw">>
              /\ last.ret[2] = <<<<"install-logs/2019-11-06.0/crash/",
                                   objs[last.r].base, ".crash">>>>

\* persistent_details read in a dry run on a created report, the mount table
\* holding other mounts only
C17_Witness ==
    /\ last.op = "persistent_details"
    /\ NotMountPoint
    /\ host.dry_run
    /\ host.mountinfo # <<>>
    /\ objs[last.r].scan = 0
    /\ last.ret[1] = <<"casper-rw">>


----------------------------------------------------------------------------
(* C18 *)

\* report r has a populate task in flight
Populating(r) == r \in Ids /\ \E t \in tasks : t.r = r /\ t.op = "populate"

\* C18: while the load task of a recovered report does not complete, no
\* report after it in its scan's chain starts loading, each staying LOADING;
\* the populate tasks of created reports are not held up by it: each one
\* started completes, bringing its report to DONE or ERROR_GENERATING.
C18_StuckLoadBlocksItsChainOnly ==
    /\ [](\A t \in tasks :
            Hangs(t) =>
               \A p, q \in 1..Len(reports) :
                  (/\ reports[p] = t.r
                   /\ p < q
                   /\ objs[reports[q]].scan = objs[t.r].scan)
                  => /\ objs[reports[q]].nload = 0
                     /\ objs[reports[q]].state = "LOADING"
                     /\ ~ InFlight(reports[q]))
    /\ \A r \in 1..MaxReports :
          Populating(r) ~> (r \in Ids /\ objs[r].state \in {"DONE", "ERROR_GENERATING"})

\* a load hangs with a report waiting behind it, and the populate task of a
\* report created meanwhile has completed
C18_Witness ==
    /\ \E t \in tasks : Hangs(t) /\ t.rest # <<>> /\ objs[Head(t.rest)].state = "LOADING"
    /\ last.op = "added_info"
    /\ objs[last.r].state \in {"DONE", "ERROR_GENERATING"}


----------------------------------------------------------------------------
(* C19 *)

\* the reports scan s recovered, in the order they stand in the sequence
ScanReports(s) == SelectSeq(reports, LAMBDA i : objs[i].scan = s)

\* every chain in progress is at some report of its scan: the reports of the
\* scan before it have been loaded, once, and those after it are exactly what
\* the chain has left to load, in the scan's order; no report made by
\* create_report has had a load started, no report more than one
ChainsIntact ==
    /\ \A r \in Ids : objs[r].nload <= 1 /\ (objs[r].scan = 0 => objs[r].nload = 0)
    /\ \A t \in LoadsInFlight :
          LET sr == ScanReports(objs[t.r].scan)
          IN  \E k \in 1..Len(sr) :
                 /\ sr[k] = t.r
                 /\ t.rest = SubSeq(sr, k + 1, Len(sr))
                 /\ \A j \in 1..Len(sr) :
                       /\ j < k => objs[sr[j]].nload = 1 /\ objs[sr[j]].ndone = 1
                       /\ j > k => objs[sr[j]].nload = 0

\* C19: create_report calls made while a load chain is in progress do not
\* alter the chain: they start and end no task and touch no other report, and
\* the chain goes on to load exactly the reports of its scan that it has not
\* loaded yet, each once and in the scan's order, never a created report.
C19_CreateLeavesChain ==
    /\ []ChainsIntact
    /\ [][last'.op = "create_report" =>
             /\ tasks' = tasks
             /\ \A r \in Ids : objs'[r] = objs[r]]_vars

\* a report was created after the first load of a two-report chain had been
\* started, and the chain has since gone on to its second report
C19_Witness ==
    /\ last.op = "loaded"
    /\ \E t \in LoadsInFlight :
          /\ objs[t.r].scan = objs[last.r].scan
          /\ \E f \in Ids : objs[f].scan = 0 /\ f > t.r /\ reports[1] = f


----------------------------------------------------------------------------
(* C20 *)

\* report r was recovered by a scan that started no load for it and left it
\* in no chain
Orphan(r) ==
    /\ objs[r].scan # 0
    /\ objs[r].nload = 0
    /\ \A t \in tasks : \A i \in 1..Len(t.rest) : t.rest[i] # r

\* C20: a scan_crash_dir call starts no load before it has constructed and
\* appended a report for every crash file of the listing: when it returns, it
\* has appended them all and started the load of the first only; when the
\* construction of an entry raises, it has started no load, and the reports
\* it had appended stay LOADING with their files open from then on.
C20_LoadsStartAfterListing ==
    [][/\ last'.op \in {"start", "scan_crash_dir"} =>
             LET made == (1..Len(objs')) \ Ids
             IN  IF last'.raised
                 THEN /\ tasks' = tasks
                      /\ \A r \in made :
                            /\ objs'[r].nload = 0
                            /\ objs'[r].state = "LOADING"
                            /\ objs'[r].file
                 ELSE /\ Cardinality(made) = Cardinality(crashFiles)
                      /\ Len(reports') = Len(reports) + Cardinality(made)
                      /\ \A r \in made : objs'[r].nload = IF r = last'.r THEN 1 ELSE 0
                      /\ \A t \in tasks' \ tasks :
                            t.r = last'.r /\ Len(t.rest) = Cardinality(made) - 1
       /\ \A r \in Ids : Orphan(r) => objs'[r] = objs[r]
       /\ \A r \in Ids :
             (objs[r].scan # 0 /\ objs[r].nload = 0)
             => objs[r].state = "LOADING" /\ objs[r].file]_vars

\* a scan has raised on its second entry after appending its first, which has
\* no load started and its file open
C20_Witness ==
    /\ last.op \in {"start", "scan_crash_dir"}
    /\ last.raised
    /\ last.r \in Ids
    /\ objs[last.r].scan = last.r
    /\ Orphan(last.r)
    /\ objs[last.r].state = "LOADING" /\ objs[last.r].file

====
